---- MODULE Spec2Model ----
(***************************************************************************)
(* Verification model of crossfit's numpy dispatch layer                   *)
(* (crossfit/array/dispatch.py) and of the dask frame backend              *)
(* (crossfit/backends/dask/dataframe.py).                                  *)
(*                                                                         *)
(* Spec      : threads running crossnp-wrapped calls; every step of        *)
(*             MonkeyPatchNumpy.__enter__ / __exit__ is one action, so     *)
(*             scopes of two threads interleave and scopes of one thread   *)
(*             nest.                                                       *)
(* SpecCnp   : one thread making and calling crossnp wrappers, requesting  *)
(*             names from cnp and calling np functions.                    *)
(* SpecCall  : calls of dispatch-wrapped operations on arguments of        *)
(*             several types under several registries.                     *)
(* SpecFrame : the lazily registered dask frame backend and its project.   *)
(* SpecPad   : pad_tensors of crossfit/utils/torch_utils.py on lists of    *)
(*             tensors.                                                    *)
(***************************************************************************)
EXTENDS Integers, Sequences, FiniteSets, TLC

(***************************************************************************)
(* Bounds of the model.                                                    *)
(***************************************************************************)
\* total number of MonkeyPatchNumpy scopes entered in one behaviour
MaxScopes == 2
\* nesting depth of crossnp-wrapped calls on one thread
MaxDepth == 2
\* total number of namespace mutations done by wrapped function bodies
MaxMuts == 1
\* number of names the cnp cache may hold
MaxCached == 2
\* number of registrations made on wrappers' own registries
MaxOwn == 1

Threads == {1, 2}

(***************************************************************************)
(* Names of the reference namespace (np.__dict__).                         *)
(***************************************************************************)
\* names the reference library exposes
LibNames ==
    {"sum", "mean", "add", "_private", "dtype", "errstate", "may_share_memory",
     "finfo", "ndarray", "isscalar"}

\* the name __enter__ adds, and a name only user code binds
AllNames == LibNames \cup {"__origdict__", "extra"}

\* names a wrapped function body adds, removes or rebinds
MutNames == {"sum", "extra"}

\* key.startswith("_")
startswith_underscore(key) == key \in {"_private", "__origdict__"}

\* name.startswith("__")
startswith_dunder(name) == name \in {"__origdict__"}

\* CNP.no_dispatch
CNP_no_dispatch == {"errstate", "may_share_memory", "finfo"}

\* MonkeyPatchNumpy.no_dispatch
MonkeyPatchNumpy_no_dispatch ==
    {"dtype", "errstate", "may_share_memory", "finfo", "ndarray", "isscalar"}

(***************************************************************************)
(* Values bound in the namespace.  A value is an object: kind and name     *)
(* identify the underlying object, wraps lists the with_dispatch wrappers  *)
(* put around it, innermost first, each a distinct function object         *)
(* identified by the number of the with_dispatch call that made it, and    *)
(* owner identifies the scope whose snapshot dict the value is.            *)
(***************************************************************************)
Unbound == [kind |-> "unbound", name |-> "", wraps |-> <<>>, owner |-> 0]

Obj(kind, name) == [kind |-> kind, name |-> name, wraps |-> <<>>, owner |-> 0]

\* the dict object self._original_numpy of scope sid
SnapshotRef(sid) == [kind |-> "dict", name |-> "", wraps |-> <<>>, owner |-> sid]

\* what kind of object the reference library binds to each of its names
LibKind(n) ==
    CASE n \in {"sum", "mean", "isscalar", "_private"} -> "fn"
      [] n = "add" -> "ufunc"
      [] n = "may_share_memory" -> "builtin"
      [] OTHER -> "class"

\* the namespace of the freshly imported reference library
OrigNs == [n \in AllNames |-> IF n \in LibNames THEN Obj(LibKind(n), n) ELSE Unbound]

IsBound(v) == v.kind # "unbound"

\* a dispatch wrapper made by with_dispatch
IsWrapper(v) == Len(v.wraps) > 0

\* isinstance(val, types.FunctionType)
IsFunctionType(val) == IsWrapper(val) \/ val.kind \in {"fn", "userfn"}

\* isinstance(func, np.ufunc)
IsUfunc(func) == ~IsWrapper(func) /\ func.kind = "ufunc"

\* func.__module__ (functools.wraps copies it onto a wrapper)
ModuleOf(func) == IF func.kind \in {"fn", "ufunc", "builtin", "class"} THEN "numpy" ELSE "__main__"

\* func.__name__ (functools.wraps copies it onto a wrapper)
NameOf(func) == func.name

\* wrapper.dispatch: the function a wrapper was made from
DispatchTarget(w) == [w EXCEPT !.wraps = SubSeq(@, 1, Len(@) - 1)]

\* with_dispatch(func): a new wrapper function object around func; id numbers the call
with_dispatch(func, id) == [func EXCEPT !.wraps = Append(@, id)]

(***************************************************************************)
(* dict operations on a namespace (a total function, Unbound = no key).    *)
(***************************************************************************)
Keys(d) == {k \in DOMAIN d : IsBound(d[k])}

\* dict.copy()
DictCopy(d) == [k \in AllNames |-> d[k]]

\* dict.update(other): other is a function on the keys it holds
DictUpdate(d, other) == [k \in AllNames |-> IF k \in DOMAIN other THEN other[k] ELSE d[k]]

\* dict.clear()
DictClear(d) == [k \in AllNames |-> Unbound]

\* the items of a namespace as a dict holding exactly its bound keys
Items(d) == [k \in Keys(d) |-> d[k]]

(***************************************************************************)
(* MonkeyPatchNumpy                                                        *)
(***************************************************************************)
\* an np_patch_dict that does not consult no_dispatch
np_patch_dict_no_exclusion(orig_np, id) ==
    [key \in {k \in Keys(orig_np) :
                 /\ ~startswith_underscore(k)
                 /\ IsFunctionType(orig_np[k])}
        |-> with_dispatch(orig_np[key], id)]

\* MonkeyPatchNumpy.np_patch_dict(orig_np); id numbers the with_dispatch calls of this scope
np_patch_dict(orig_np, id) ==
    [key \in {k \in Keys(orig_np) :
                 /\ k \notin MonkeyPatchNumpy_no_dispatch
                 /\ ~startswith_underscore(k)
                 /\ IsFunctionType(orig_np[k])}
        |-> with_dispatch(orig_np[key], id)]

\* __enter__, line 159: self._original_numpy = np.__dict__.copy()
EnterSnapshot(np_dict) == DictCopy(np_dict)

\* __enter__, lines 160-161: np.__dict__.update(self.np_patch_dict(self._original_numpy))
EnterPatch(np_dict, original_numpy, id) ==
    DictUpdate(np_dict, np_patch_dict(original_numpy, id))

\* __enter__, line 162: np.__origdict__ = self._original_numpy
EnterOrigdict(np_dict, sid) == [np_dict EXCEPT !["__origdict__"] = SnapshotRef(sid)]

\* an __exit__ that forgets to clear the namespace before restoring it
ExitClear_skipped(np_dict) == np_dict

\* __exit__, line 165: np.__dict__.clear()
ExitClear(np_dict) == DictClear(np_dict)

\* an __exit__ that puts back only the bindings __enter__ replaced
ExitRestore_patched_only(np_dict, original_numpy) ==
    DictUpdate(np_dict, [k \in DOMAIN np_patch_dict(original_numpy, 0) |-> original_numpy[k]])

\* an __exit__ that restores the library's pristine bindings, not its own snapshot
ExitRestore_pristine(np_dict, original_numpy) == DictUpdate(np_dict, Items(OrigNs))

\* __exit__, line 166: np.__dict__.update(self._original_numpy)
ExitRestore(np_dict, original_numpy) == DictUpdate(np_dict, Items(original_numpy))

(***************************************************************************)
(* CNP.__getattr__ as a function of the name, the namespace and the cache: *)
(* the value returned (Unbound when AttributeError is raised) and the      *)
(* cache afterwards.  id numbers the with_dispatch call it may make.       *)
(***************************************************************************)
\* a __getattr__ that wraps the function anew on every request
CNP_getattr_rewrap(name, np_dict, fns, id) ==
    IF startswith_dunder(name) \/ ~IsBound(np_dict[name])
    THEN [raised |-> TRUE, val |-> Unbound, fns |-> fns]
    ELSE IF name \in CNP_no_dispatch
    THEN [raised |-> FALSE, val |-> np_dict[name], fns |-> fns]
    ELSE LET fns2 == [fns EXCEPT ![name] = with_dispatch(np_dict[name], id)]
         IN [raised |-> FALSE, val |-> fns2[name], fns |-> fns2]

\* a __getattr__ without the hasattr check of line 118
CNP_getattr_no_hasattr(name, np_dict, fns, id) ==
    IF startswith_dunder(name)
    THEN [raised |-> TRUE, val |-> Unbound, fns |-> fns]
    ELSE IF name \in CNP_no_dispatch
    THEN [raised |-> FALSE, val |-> np_dict[name], fns |-> fns]
    ELSE LET fns2 == IF ~IsBound(fns[name])
                     THEN [fns EXCEPT ![name] = with_dispatch(Obj("fn", name), id)]
                     ELSE fns
         IN [raised |-> FALSE, val |-> fns2[name], fns |-> fns2]

CNP_getattr(name, np_dict, fns, id) ==
    IF startswith_dunder(name) \/ ~IsBound(np_dict[name])
    THEN [raised |-> TRUE, val |-> Unbound, fns |-> fns]
    ELSE IF name \in CNP_no_dispatch
    THEN [raised |-> FALSE, val |-> np_dict[name], fns |-> fns]
    ELSE LET fns2 == IF ~IsBound(fns[name])
                     THEN [fns EXCEPT ![name] = with_dispatch(np_dict[name], id)]
                     ELSE fns
         IN [raised |-> FALSE, val |-> fns2[name], fns |-> fns2]

(***************************************************************************)
(* Runtime types of first arguments, as dask.utils.Dispatch sees them:     *)
(* the method resolution order of a class and the top-level module of each *)
(* class.                                                                  *)
(***************************************************************************)
Classes ==
    {"list", "matrix", "ndarray", "Tensor", "int", "object",
     "DataFrame", "Series", "MyFrame", "PandasFrame"}

\* cls.__mro__ ; MyFrame is a user's subclass of the dask DataFrame
MRO(cls) ==
    CASE cls = "matrix" -> <<"matrix", "ndarray", "object">>
      [] cls = "MyFrame" -> <<"MyFrame", "DataFrame", "object">>
      [] cls = "object" -> <<"object">>
      [] OTHER -> <<cls, "object">>

\* cls2.__module__.split(".")[0]
TopLevel(cls2) ==
    CASE cls2 \in {"matrix", "ndarray"} -> "numpy"
      [] cls2 = "Tensor" -> "tensorlib"
      [] cls2 \in {"DataFrame", "Series"} -> "dask"
      [] cls2 = "PandasFrame" -> "pandas"
      [] cls2 = "MyFrame" -> "__main__"
      [] OTHER -> "builtins"

NoHandler == "none"

\* a Dispatch with nothing registered
EmptyDispatch == [lookup |-> [c \in Classes |-> NoHandler], lazy |-> <<>>]

\* Dispatch.register(cls, impl)
Register(D, cls, impl) == [D EXCEPT !.lookup[cls] = impl]

\* Dispatch.register_lazy(toplevel, loader); regs is what the loader registers
RegisterLazy(D, toplevel, regs) ==
    [D EXCEPT !.lazy = [m \in DOMAIN D.lazy \cup {toplevel} |->
                           IF m = toplevel THEN regs ELSE D.lazy[m]]]

\* running a lazy loader: it registers its classes; the entry is popped
RunLoader(D, toplevel) ==
    [lookup |-> [c \in Classes |->
                    IF c \in DOMAIN D.lazy[toplevel] THEN D.lazy[toplevel][c] ELSE D.lookup[c]],
     lazy |-> [m \in DOMAIN D.lazy \ {toplevel} |-> D.lazy[m]]]

(***************************************************************************)
(* Dispatch.dispatch(cls): the registry afterwards, the implementation     *)
(* found (NoHandler when TypeError is raised) and how many lazy loaders    *)
(* ran.  dispatch_mro is its loop over cls.__mro__ from position i.        *)
(***************************************************************************)
RECURSIVE dispatch(_, _)
RECURSIVE dispatch_mro(_, _, _)

dispatch_mro(D, cls, i) ==
    IF i > Len(MRO(cls))
    THEN [D |-> D, impl |-> NoHandler, ran |-> 0]
    ELSE LET cls2 == MRO(cls)[i]
         IN IF TopLevel(cls2) \in DOMAIN D.lazy
            THEN LET r == dispatch(RunLoader(D, TopLevel(cls2)), cls)
                 IN [r EXCEPT !.ran = @ + 1]
            ELSE IF D.lookup[cls2] # NoHandler
            THEN [D |-> Register(D, cls, D.lookup[cls2]), impl |-> D.lookup[cls2], ran |-> 0]
            ELSE dispatch_mro(D, cls, i + 1)

dispatch(D, cls) ==
    IF D.lookup[cls] # NoHandler
    THEN [D |-> D, impl |-> D.lookup[cls], ran |-> 0]
    ELSE dispatch_mro(D, cls, 1)

(***************************************************************************)
(* Calls.  An argument is its runtime type and its data.  The record a     *)
(* call yields says which implementation ran last (target, fn), the error  *)
(* raised if any, how often the reference implementation, a backend        *)
(* adapter (NPBackend.__call__) and the generic dispatcher                 *)
(* (np_backend_dispatch.__call__) were called, the argument the reference  *)
(* implementation got, the value returned, the lazy loaders run, and the   *)
(* registry afterwards.                                                    *)
(***************************************************************************)
NoArg == [ty |-> "none", data |-> <<>>]

RECURSIVE SeqSum(_)
SeqSum(s) == IF s = <<>> THEN 0 ELSE s[1] + SeqSum(Tail(s))

\* names the library wrapped by the NPBackend registered as impl exposes
BackendAttrs(impl) == IF impl = "TensorBackend" THEN {"sum", "dtype", "finfo", "isscalar"} ELSE {}

\* the reference implementation of numpy's <name> rejects this argument
RefRaises(name, arg) ==
    \/ name \in {"finfo", "dtype"} /\ arg.ty = "int"
    \/ name = "mean" /\ arg.ty = "Tensor"

\* what the function computes: numpy's or a backend library's
Compute(name, arg) == IF name = "sum" THEN SeqSum(arg.data) ELSE Len(arg.data)

\* a plain (not dispatch-wrapped) numpy object is called
CallReference(f, arg, D) ==
    [target |-> "reference", fn |-> NameOf(f),
     raised |-> IF RefRaises(NameOf(f), arg) THEN "TypeError" ELSE "",
     refcalls |-> 1, adapters |-> 0, generic |-> 0, refarg |-> arg,
     val |-> IF RefRaises(NameOf(f), arg) THEN 0 ELSE Compute(NameOf(f), arg),
     ran |-> 0, D |-> D]

\* an NPBackend that falls back on getattr's own AttributeError
NPBackend_call_attribute_error(impl, np_func, arg, D) ==
    [target |-> IF NameOf(np_func) \in BackendAttrs(impl) THEN "backend" ELSE "none",
     fn |-> NameOf(np_func),
     raised |-> IF NameOf(np_func) \in BackendAttrs(impl) THEN "" ELSE "AttributeError",
     refcalls |-> 0, adapters |-> 1, generic |-> 0, refarg |-> NoArg,
     val |-> IF NameOf(np_func) \in BackendAttrs(impl) THEN Compute(NameOf(np_func), arg) ELSE 0,
     ran |-> 0, D |-> D]

\* NPBackend.__call__(np_func, arg) with NPBackend.__getattr__
NPBackend_call(impl, np_func, arg, D) ==
    [target |-> IF NameOf(np_func) \in BackendAttrs(impl) THEN "backend" ELSE "none",
     fn |-> NameOf(np_func),
     raised |-> IF NameOf(np_func) \in BackendAttrs(impl) THEN "" ELSE "NotImplementedError",
     refcalls |-> 0, adapters |-> 1, generic |-> 0, refarg |-> NoArg,
     val |-> IF NameOf(np_func) \in BackendAttrs(impl) THEN Compute(NameOf(np_func), arg) ELSE 0,
     ran |-> 0, D |-> D]

\* Dispatch.__call__ of a wrapper's own registry: the per-function override runs
CallOverride(f, arg, D) ==
    [target |-> "override", fn |-> NameOf(f), raised |-> "",
     refcalls |-> 0, adapters |-> 0, generic |-> 0, refarg |-> NoArg,
     val |-> Compute(NameOf(f), arg), ran |-> 0, D |-> D]

\* NPFunctionDispatch.supports(arg) of wrapper f; own holds the registrations
\* made on wrappers' own registries, as pairs <<wrapper, class>>
supports(f, arg, own) ==
    \E i \in 1..Len(MRO(arg.ty)) : <<f, MRO(arg.ty)[i]>> \in own

\* isinstance(arg, (np.ndarray, list)); np.ndarray is read from the namespace
IsPlain(arg, np_dict) ==
    \E i \in 1..Len(MRO(arg.ty)) :
        \/ MRO(arg.ty)[i] = "list"
        \/ MRO(arg.ty)[i] = "ndarray" /\ np_dict["ndarray"] = OrigNs["ndarray"]

RECURSIVE Call(_, _, _, _, _)

\* an NPBackendDispatch.__call__ without the try/except around dispatch
NPBackendDispatch_call_no_fallback(np_func, arg, np_dict, D, own) ==
    LET r == dispatch(D, arg.ty)
    IN IF r.impl = NoHandler
       THEN [target |-> "none", fn |-> NameOf(np_func), raised |-> "TypeError",
             refcalls |-> 0, adapters |-> 0, generic |-> 1, refarg |-> NoArg, val |-> 0,
             ran |-> r.ran, D |-> r.D]
       ELSE [NPBackend_call(r.impl, np_func, arg, r.D) EXCEPT !.ran = r.ran, !.generic = 1]

\* NPBackendDispatch.__call__(np_func, arg) on the registry D
NPBackendDispatch_call(np_func, arg, np_dict, D, own) ==
    LET r == dispatch(D, arg.ty)
    IN IF r.impl = NoHandler
       THEN LET c == Call(np_func, arg, np_dict, r.D, own)
            IN [c EXCEPT !.ran = @ + r.ran, !.generic = @ + 1]
       ELSE [NPBackend_call(r.impl, np_func, arg, r.D) EXCEPT !.ran = r.ran, !.generic = 1]

\* an NPFunctionDispatch.__call__ without the dtype and plain-value short cuts
NPFunctionDispatch_call_no_shortcut(f, arg, np_dict, D, own) ==
    IF supports(f, arg, own)
    THEN CallOverride(f, arg, D)
    ELSE NPBackendDispatch_call(DispatchTarget(f), arg, np_dict, D, own)

\* NPFunctionDispatch.__call__(arg) of the wrapper f; self.function is DispatchTarget(f)
NPFunctionDispatch_call(f, arg, np_dict, D, own) ==
    IF DispatchTarget(f) = np_dict["dtype"]
    THEN Call(DispatchTarget(f), arg, np_dict, D, own)
    ELSE IF IsPlain(arg, np_dict)
    THEN Call(DispatchTarget(f), arg, np_dict, D, own)
    ELSE IF supports(f, arg, own)
    THEN CallOverride(f, arg, D)
    ELSE NPBackendDispatch_call(DispatchTarget(f), arg, np_dict, D, own)

\* calling the object f: a with_dispatch wrapper (line 62) or a numpy object
Call(f, arg, np_dict, D, own) ==
    IF IsWrapper(f)
    THEN NPFunctionDispatch_call(f, arg, np_dict, D, own)
    ELSE CallReference(f, arg, D)

(***************************************************************************)
(* The dask frame backend.  A column label is a str or an int ("i0" stands *)
(* for the int 0); a projection request is one label or a list of labels.  *)
(***************************************************************************)
Labels == {"a", "b", "c", "i0"}

\* the longest list of columns a program requests
MaxLen == 2

\* a registration under the module's dotted path
LazyKey_submodule == "dask.dataframe"

\* the module name the loader is registered under, line 9
LazyKey == "dask"

\* what register_dask_backend registers when it runs, line 90
DaskRegs == [c \in {"DataFrame"} |-> "DaskDataFrame"]

\* the classes of the family: their __mro__ holds a class of the dask package
Family == {"DataFrame", "Series", "MyFrame"}

\* CrossFrame after crossfit.backends.dask.dataframe has been imported
InitFrameRegistry == RegisterLazy(EmptyDispatch, LazyKey, DaskRegs)

\* the column lists of the dask DataFrames the program starts from
Datas == {<<"a", "b">>, <<"b", "i0", "a">>}

Lists == UNION {[1..k -> Labels] : k \in 0..MaxLen}

\* what project is called with: a single str or int, or a list
Requests ==
    {[scalar |-> TRUE, val |-> <<l>>] : l \in Labels}
        \cup {[scalar |-> FALSE, val |-> cols] : cols \in Lists}

\* lines 62-63: a single str or int becomes a one-element list (a scalar
\* request already carries its label as the only element of val)
AsList(columns) == IF columns.scalar THEN <<columns.val[1]>> ELSE columns.val

\* set(columns)
SetOf(columns) == {columns[i] : i \in DOMAIN columns}

\* DaskDataFrame.columns: list(self.data.columns)
Columns(data) == data

\* position of the column labelled l in data
IndexOf(data, l) == CHOOSE j \in DOMAIN data : data[j] = l

\* self.data[columns] for a list of columns: each one is looked up in the
\* data, and a label the data does not have is a KeyError
GetItem(data, columns) ==
    IF \E i \in DOMAIN columns : columns[i] \notin SetOf(data)
    THEN [raised |-> "KeyError", data |-> <<>>]
    ELSE [raised |-> "", data |-> [i \in DOMAIN columns |-> data[IndexOf(data, columns[i])]]]

\* a project that does not look at the frame's columns
project_unchecked(data, columns) == GetItem(data, AsList(columns))

\* DaskDataFrame.project(columns) up to the call of CrossFrame: the error
\* raised, or the data handed to CrossFrame
project(data, columns) ==
    IF ~(SetOf(AsList(columns)) \subseteq SetOf(Columns(data)))
    THEN [raised |-> "ValueError", data |-> <<>>]
    ELSE GetItem(data, AsList(columns))

(***************************************************************************)
(* crossfit/utils/torch_utils.py.  A tensor is its shape and its cells, a  *)
(* cell being addressed by one index (from 1) per dimension.               *)
(***************************************************************************)
\* the largest size of a dimension of an input tensor
MaxDim == 2

\* the longest list of tensors handed to pad_tensors
MaxList == 3

\* the ranks of the input tensors
Ranks == {1, 2}

\* the values of pad_token_id tried
PadValues == {0, 9}

\* the indices of the cells of a tensor of this shape
Indices(shape) == {idx \in [1..Len(shape) -> 1..MaxDim + 1] : \A d \in 1..Len(shape) : idx[d] <= shape[d]}

\* the k-th input tensor of a given shape: its cells differ from each other,
\* from the cells of the other inputs and from the padding values
InputTensor(k, shape) ==
    [shape |-> shape,
     cell |-> [idx \in Indices(shape) |->
                  100 * k + 10 * idx[1] + (IF Len(shape) > 1 THEN idx[2] ELSE 0)]]

Shapes(rank) == [1..rank -> 1..MaxDim]

RECURSIVE MaxOver(_, _)
\* lines 26-29: the running maximum of dimension d over the tensors
MaxOver(tensor_list, d) ==
    IF Len(tensor_list) = 1
    THEN tensor_list[1].shape[d]
    ELSE LET m == MaxOver(SubSeq(tensor_list, 1, Len(tensor_list) - 1), d)
             x == tensor_list[Len(tensor_list)].shape[d]
         IN IF x > m THEN x ELSE m

\* a max_sizes that takes the maximum of every dimension
max_sizes_all_dims(tensor_list) ==
    [d \in 1..Len(tensor_list[1].shape) |-> MaxOver(tensor_list, d)]

\* lines 25-29: max_sizes starts as the first tensor's shape, and the loop
\* over range(1, len(tensor.shape)) leaves its first entry alone
max_sizes(tensor_list) ==
    [d \in 1..Len(tensor_list[1].shape) |->
        IF d = 1 THEN tensor_list[1].shape[1] ELSE MaxOver(tensor_list, d)]

\* lines 34-37: for i from the last dimension down to the second, the pair
\* [0, max_sizes[i] - tensor.shape[i]]
pad_sizes(tensor, sizes) ==
    LET rank == Len(tensor.shape)
    IN [j \in 1..2 * (rank - 1) |->
           IF j % 2 = 1 THEN 0
           ELSE sizes[rank - (j \div 2) + 1] - tensor.shape[rank - (j \div 2) + 1]]

\* F.pad(tensor, pad, mode="constant", value): the pairs of pad are (left,
\* right) amounts, the first pair for the last dimension
Fpad(tensor, pad, value) ==
    LET rank == Len(tensor.shape)
        pair(d) == rank - d + 1
        left(d) == IF 2 * pair(d) <= Len(pad) THEN pad[2 * pair(d) - 1] ELSE 0
        right(d) == IF 2 * pair(d) <= Len(pad) THEN pad[2 * pair(d)] ELSE 0
        shape2 == [d \in 1..rank |-> tensor.shape[d] + left(d) + right(d)]
    IN [shape |-> shape2,
        cell |-> [idx \in Indices(shape2) |->
                     LET src == [d \in 1..rank |-> idx[d] - left(d)]
                     IN IF src \in DOMAIN tensor.cell THEN tensor.cell[src] ELSE value]]

\* pad_tensors(tensor_list, pad_token_id)
pad_tensors(tensor_list, pad_token_id) ==
    [i \in 1..Len(tensor_list) |->
        Fpad(tensor_list[i], pad_sizes(tensor_list[i], max_sizes(tensor_list)), pad_token_id)]

(***************************************************************************)
(* State.                                                                  *)
(***************************************************************************)
VARIABLES
    ns,       \* np.__dict__, the process-wide reference namespace
    stack,    \* per thread: the active crossnp-wrapped calls, outermost first
    result,   \* per thread: how its last outermost wrapped call ended
    nextId,   \* number of MonkeyPatchNumpy scopes entered so far
    muts,     \* namespace mutations done by bodies so far
    fns,      \* CNP.fns, the process-wide cache of cnp
    reg,      \* np_backend_dispatch: its _lookup and _lazy
    own,      \* registrations on wrappers' own NPFunctionDispatch registries
    made,     \* whether crossnp(f) has returned a wrapper of a user function f
    nextW,    \* number of with_dispatch calls made by cnp so far
    event,    \* the last thing the single-threaded program did and got back
    cf,       \* CrossFrame: its _lookup and _lazy
    loads,    \* number of times register_dask_backend has run
    cur,      \* the DaskDataFrame the frame program holds: its data's columns
    first,    \* the type of the first value of the dask family dispatched on
    fevent,   \* the last thing the frame program did and got back
    tensors,  \* the list of tensors a program has built
    padded    \* what pad_tensors returned for that list, once called

scopeVars == <<ns, stack, result, nextId, muts>>

callVars == <<fns, reg, own, made, nextW, event>>

frameVars == <<cf, loads, cur, first, fevent>>

padVars == <<tensors, padded>>

vars ==
    <<ns, stack, result, nextId, muts, fns, reg, own, made, nextW, event, frameVars, padVars>>

NoEvent ==
    [what |-> "none", n |-> "", via |-> "", arg |-> NoArg, target |-> "none", fn |-> "",
     raised |-> "", refcalls |-> 0, adapters |-> 0, generic |-> 0, refarg |-> NoArg,
     val |-> 0, ran |-> 0, unhandled |-> FALSE, obj |-> Unbound]

\* no frame held
NoFrame == [held |-> FALSE, data |-> <<>>]

NoFEvent ==
    [what |-> "none", cls |-> "", impl |-> NoHandler, ran |-> 0, raised |-> "",
     frame |-> <<>>, request |-> [scalar |-> FALSE, val |-> <<>>], columns |-> <<>>]

\* pad_tensors not called on the list yet
NotPadded == [done |-> FALSE, value |-> 0, out |-> <<>>]

InitPadVars ==
    /\ tensors = <<>>
    /\ padded = NotPadded

InitFrameVars ==
    /\ cf = InitFrameRegistry
    /\ loads = 0
    /\ cur = NoFrame
    /\ first = ""
    /\ fevent = NoFEvent

InitCallVars ==
    /\ fns = [n \in AllNames |-> Unbound]
    /\ reg = EmptyDispatch
    /\ own = {}
    /\ made = FALSE
    /\ nextW = 0
    /\ event = NoEvent

NoResult == [kind |-> "none", nested |-> FALSE, xthread |-> FALSE]

\* values a body binds to a name n: a user object, a user-defined function
UserValues(n) == {Obj("userobj", n), Obj("userfn", n)}

Top(t) == stack[t][Len(stack[t])]

SetTop(stk, f) == [stk EXCEPT ![Len(stk)] = f]

InBody(t) == Len(stack[t]) > 0 /\ Top(t).pc = "body"

\* the thread runs user code: at top level, or inside a wrapped function's body
Running(t) == stack[t] = <<>> \/ InBody(t)

Init ==
    /\ ns = OrigNs
    /\ InitCallVars
    /\ InitFrameVars
    /\ InitPadVars
    /\ stack = [t \in Threads |-> <<>>]
    /\ result = [t \in Threads |-> NoResult]
    /\ nextId = 0
    /\ muts = 0

(***************************************************************************)
(* The callable returned by crossnp is called (lines 204-206):             *)
(* `with MonkeyPatchNumpy():` runs __enter__, whose line 159 is this step. *)
(* pre, xthread, nested and during are history: the namespace right before *)
(* __enter__, whether a scope of another thread overlapped this one,       *)
(* whether this scope had a scope of its own thread opened inside it, and  *)
(* whether a scope of another thread was active with its patch applied     *)
(* (after line 161, before line 165) when this one took its snapshot.      *)
(***************************************************************************)
Enter(t) ==
    /\ Running(t)
    /\ nextId < MaxScopes
    /\ Len(stack[t]) < MaxDepth
    /\ nextId' = nextId + 1
    /\ LET others == \E u \in Threads \ {t} : stack[u] # <<>>
           frame == [sid |-> nextId + 1, pc |-> "patch",
                     snap |-> EnterSnapshot(ns), out |-> "none",
                     pre |-> ns, xthread |-> others, nested |-> FALSE,
                     during |-> \E u \in Threads \ {t} : \E i \in 1..Len(stack[u]) :
                                   stack[u][i].pc \in {"orig", "body", "exit"}]
       IN stack' = [u \in Threads |->
                      IF u = t
                      THEN Append([i \in 1..Len(stack[t]) |->
                                      [stack[t][i] EXCEPT !.nested = TRUE]], frame)
                      ELSE [i \in 1..Len(stack[u]) |->
                                      [stack[u][i] EXCEPT !.xthread = TRUE]]]
    /\ UNCHANGED <<frameVars, padVars, ns, callVars, result, muts>>

\* __enter__ lines 160-161
Patch(t) ==
    /\ Len(stack[t]) > 0
    /\ Top(t).pc = "patch"
    /\ ns' = EnterPatch(ns, Top(t).snap, Top(t).sid)
    /\ stack' = [stack EXCEPT ![t] = SetTop(@, [Top(t) EXCEPT !.pc = "orig"])]
    /\ UNCHANGED <<frameVars, padVars, callVars, result, nextId, muts>>

\* __enter__ line 162; the body of the wrapped function starts
Origdict(t) ==
    /\ Len(stack[t]) > 0
    /\ Top(t).pc = "orig"
    /\ ns' = EnterOrigdict(ns, Top(t).sid)
    /\ stack' = [stack EXCEPT ![t] = SetTop(@, [Top(t) EXCEPT !.pc = "body"])]
    /\ UNCHANGED <<frameVars, padVars, callVars, result, nextId, muts>>

(***************************************************************************)
(* What a wrapped function's body may do to the namespace.                 *)
(***************************************************************************)
\* np.<n> = v : add a name or rebind one
BodyBind(t) ==
    /\ InBody(t)
    /\ muts < MaxMuts
    /\ \E n \in MutNames : \E v \in UserValues(n) :
          ns' = [ns EXCEPT ![n] = v]
    /\ muts' = muts + 1
    /\ UNCHANGED <<frameVars, padVars, callVars, stack, result, nextId>>

\* del np.<n>
BodyDel(t) ==
    /\ InBody(t)
    /\ muts < MaxMuts
    /\ \E n \in MutNames :
          /\ IsBound(ns[n])
          /\ ns' = [ns EXCEPT ![n] = Unbound]
    /\ muts' = muts + 1
    /\ UNCHANGED <<frameVars, padVars, callVars, stack, result, nextId>>

\* the body returns, or raises: the with statement calls __exit__ either way
BodyEnd(t) ==
    /\ InBody(t)
    /\ \E o \in {"ret", "exc"} :
          stack' = [stack EXCEPT ![t] = SetTop(@, [Top(t) EXCEPT !.pc = "exit", !.out = o])]
    /\ UNCHANGED <<frameVars, padVars, ns, callVars, result, nextId, muts>>

\* __exit__ line 165
Clear(t) ==
    /\ Len(stack[t]) > 0
    /\ Top(t).pc = "exit"
    /\ ns' = ExitClear(ns)
    /\ stack' = [stack EXCEPT ![t] = SetTop(@, [Top(t) EXCEPT !.pc = "restore"])]
    /\ UNCHANGED <<frameVars, padVars, callVars, result, nextId, muts>>

(***************************************************************************)
(* __exit__ line 166, then the wrapper returns or re-raises: to the top    *)
(* level (result), or into the body of the enclosing wrapped call, through *)
(* which an error propagates.                                              *)
(***************************************************************************)
Restore(t) ==
    /\ Len(stack[t]) > 0
    /\ Top(t).pc = "restore"
    /\ ns' = ExitRestore(ns, Top(t).snap)
    /\ LET rest == SubSeq(stack[t], 1, Len(stack[t]) - 1)
           f == Top(t)
       IN IF rest = <<>>
          THEN /\ stack' = [stack EXCEPT ![t] = rest]
               /\ result' = [result EXCEPT ![t] =
                     [kind |-> f.out, nested |-> f.nested, xthread |-> f.xthread]]
          ELSE /\ stack' = [stack EXCEPT ![t] =
                     IF f.out = "exc"
                     THEN SetTop(rest, [rest[Len(rest)] EXCEPT !.pc = "exit", !.out = "exc"])
                     ELSE rest]
               /\ UNCHANGED result
    /\ UNCHANGED <<frameVars, padVars, callVars, nextId, muts>>

Next ==
    \E t \in Threads :
        \/ Enter(t)
        \/ Patch(t)
        \/ Origdict(t)
        \/ BodyBind(t)
        \/ BodyDel(t)
        \/ BodyEnd(t)
        \/ Clear(t)
        \/ Restore(t)

Spec == Init /\ [][Next]_vars

(***************************************************************************)
(* Calls made by a single-threaded program.                                *)
(***************************************************************************)
Main == 1

\* the registries the program may start from: nothing registered, a backend
\* registered for Tensor, one registered for the plain types too, and a
\* backend registered lazily under its module name
TensorRegs == [c \in {"Tensor"} |-> "TensorBackend"]

InitRegs ==
    {EmptyDispatch,
     Register(EmptyDispatch, "Tensor", "TensorBackend"),
     Register(Register(Register(EmptyDispatch, "Tensor", "TensorBackend"),
                       "list", "TensorBackend"), "matrix", "TensorBackend"),
     RegisterLazy(EmptyDispatch, "tensorlib", TensorRegs)}

Args ==
    {[ty |-> "list", data |-> <<1, 2, 3>>],
     [ty |-> "matrix", data |-> <<4>>],
     [ty |-> "Tensor", data |-> <<1, 2, 3>>],
     [ty |-> "int", data |-> <<5>>]}

\* names the program calls
CallNames == MonkeyPatchNumpy_no_dispatch \cup {"sum", "mean"}

\* the first argument's type has no handler in any registry the call consults
Unhandled(f, arg) ==
    /\ \A k \in 1..Len(f.wraps) : ~supports([f EXCEPT !.wraps = SubSeq(@, 1, k)], arg, own)
    /\ \A i \in 1..Len(MRO(arg.ty)) :
          /\ reg.lookup[MRO(arg.ty)[i]] = NoHandler
          /\ TopLevel(MRO(arg.ty)[i]) \notin DOMAIN reg.lazy

\* what the program got back from calling f on arg
CallEvent(n, via, f, arg, c) ==
    [what |-> "call", n |-> n, via |-> via, arg |-> arg,
     target |-> c.target, fn |-> c.fn, raised |-> c.raised,
     refcalls |-> c.refcalls, adapters |-> c.adapters, generic |-> c.generic,
     refarg |-> c.refarg, val |-> c.val, ran |-> c.ran,
     unhandled |-> Unhandled(f, arg), obj |-> f]

\* the cache may take a new entry for name, or need not
CacheRoom(name) == IsBound(fns[name]) \/ Cardinality(Keys(fns)) < MaxCached

(***************************************************************************)
(* SpecCnp: one thread that makes and calls crossnp wrappers (scopes nest, *)
(* __enter__ and __exit__ run undisturbed), requests names from cnp and    *)
(* calls np functions, inside and outside monkey-patch scopes.             *)
(***************************************************************************)
\* the user function given to crossnp, f(x) = np.<name>(x) + 1, returns one
\* more than the call it just made returned (1 when it made none)
FuncReturn(ev) == IF ev.what \in {"call", "return"} /\ ev.raised = "" THEN ev.val + 1 ELSE 1

\* a wrapper that drops the value of func
WrapperReturn_dropped(v) == 0

\* crossnp.wrapper line 206: return func(...)
WrapperReturn(v) == v

InitCnp ==
    /\ ns = OrigNs
    /\ stack = [t \in Threads |-> <<>>]
    /\ result = [t \in Threads |-> NoResult]
    /\ nextId = 0
    /\ muts = 0
    /\ fns = [n \in AllNames |-> Unbound]
    /\ reg \in {EmptyDispatch, Register(EmptyDispatch, "Tensor", "TensorBackend")}
    /\ own = {}
    /\ made = FALSE
    /\ nextW = 0
    /\ event = NoEvent
    /\ InitFrameVars
    /\ InitPadVars

CanRun == stack[Main] = <<>> \/ (InBody(Main) /\ Top(Main).out = "none")

\* crossnp(f) for a user function f: lines 200-208 return the closure `wrapper`
Wrap ==
    /\ CanRun
    /\ ~made
    /\ made' = TRUE
    /\ event' = [NoEvent EXCEPT !.what = "wrap"]
    /\ UNCHANGED <<frameVars, padVars, scopeVars, fns, reg, own, nextW>>

\* the wrapper is called: the whole of __enter__, then func starts
CallEnter ==
    /\ CanRun
    /\ made
    /\ nextId < MaxScopes
    /\ Len(stack[Main]) < MaxDepth
    /\ nextId' = nextId + 1
    /\ LET sid == nextId + 1
           snap == EnterSnapshot(ns)
           frame == [sid |-> sid, pc |-> "body", snap |-> snap, out |-> "none",
                     pre |-> ns, xthread |-> FALSE, nested |-> FALSE, during |-> FALSE]
       IN /\ ns' = EnterOrigdict(EnterPatch(ns, snap, sid), sid)
          /\ stack' = [stack EXCEPT ![Main] =
                          Append([i \in 1..Len(@) |-> [@[i] EXCEPT !.nested = TRUE]], frame)]
    /\ event' = [NoEvent EXCEPT !.what = "enter"]
    /\ UNCHANGED <<frameVars, padVars, result, muts, fns, reg, own, made, nextW>>

\* func returns or raises; the whole of __exit__; the wrapper hands the value
\* or the error on to its caller
CallExit ==
    /\ Len(stack[Main]) > 0
    /\ \E o \in {"ret", "exc"} :
          LET f == Top(Main)
              rest == SubSeq(stack[Main], 1, Len(stack[Main]) - 1)
              v == IF o = "ret" THEN WrapperReturn(FuncReturn(event)) ELSE 0
          IN /\ f.out = "exc" => o = "exc"
             /\ ns' = ExitRestore(ExitClear(ns), f.snap)
             /\ stack' = [stack EXCEPT ![Main] =
                   IF rest = <<>> THEN rest
                   ELSE SetTop(rest, [rest[Len(rest)] EXCEPT
                                         !.out = IF o = "exc" THEN "exc" ELSE @])]
             /\ event' = [NoEvent EXCEPT !.what = "return",
                                         !.raised = IF o = "exc" THEN "Error" ELSE "",
                                         !.val = v]
    /\ UNCHANGED <<frameVars, padVars, result, nextId, muts, fns, reg, own, made, nextW>>

\* names the program requests from cnp: functions, a ufunc, a name cnp
\* does not dispatch, a name numpy lacks and a dunder name
LookupNames == {"sum", "mean", "add", "finfo", "extra", "__origdict__"}

\* getattr(cnp, name)
CnpLookup ==
    /\ CanRun
    /\ \E name \in LookupNames :
       \E r \in {CNP_getattr(name, ns, fns, -(nextW + 1))} :
          /\ CacheRoom(name)
          /\ fns' = r.fns
          /\ nextW' = IF r.fns # fns THEN nextW + 1 ELSE nextW
          /\ event' = [NoEvent EXCEPT !.what = "lookup", !.n = name,
                                      !.raised = IF r.raised THEN "AttributeError" ELSE "",
                                      !.obj = r.val]
    /\ UNCHANGED <<frameVars, padVars, scopeVars, reg, own, made>>

\* crossnp(np.<n>): lines 200-201 for a function of the reference library
CrossnpLib ==
    /\ CanRun
    /\ \E n \in LookupNames \cap LibNames :
       \E r \in {CNP_getattr(NameOf(ns[n]), ns, fns, -(nextW + 1))} :
          /\ IsBound(ns[n])
          /\ IsUfunc(ns[n]) \/ ModuleOf(ns[n]) = "numpy"
          /\ CacheRoom(NameOf(ns[n]))
          /\ fns' = r.fns
          /\ nextW' = IF r.fns # fns THEN nextW + 1 ELSE nextW
          /\ event' = [NoEvent EXCEPT !.what = "crossnp", !.n = n,
                                      !.raised = IF r.raised THEN "AttributeError" ELSE "",
                                      !.obj = r.val]
    /\ UNCHANGED <<frameVars, padVars, scopeVars, reg, own, made>>

\* np.<n>(arg), the namespace patched or not
BodyCall ==
    /\ CanRun
    /\ \E n \in {"sum", "mean"} : \E arg \in Args :
       \E c \in {Call(ns[n], arg, ns, reg, own)} :
          /\ reg' = c.D
          /\ event' = CallEvent(n, "np", ns[n], arg, c)
    /\ UNCHANGED <<frameVars, padVars, scopeVars, fns, own, made, nextW>>

NextCnp ==
    \/ Wrap
    \/ CallEnter
    \/ CallExit
    \/ CnpLookup
    \/ CrossnpLib
    \/ BodyCall

SpecCnp == InitCnp /\ [][NextCnp]_vars

(***************************************************************************)
(* SpecCall: one thread calling functions of every kind on arguments of    *)
(* every type, under several registries.  A function is reached as np.<n>  *)
(* at top level, as np.<n> inside one or two nested crossnp-wrapped calls  *)
(* (such a call is one step: __enter__, the call, __exit__), or as         *)
(* cnp.<n>.                                                                *)
(***************************************************************************)
InitCall ==
    /\ ns = OrigNs
    /\ stack = [t \in Threads |-> <<>>]
    /\ result = [t \in Threads |-> NoResult]
    /\ nextId = 0
    /\ muts = 0
    /\ fns = [n \in AllNames |-> Unbound]
    /\ reg \in InitRegs
    /\ own = {}
    /\ made = FALSE
    /\ nextW = 0
    /\ event = NoEvent
    /\ InitFrameVars
    /\ InitPadVars

\* the whole of __enter__ for the scope numbered sid
EnterAll(np_dict, sid) == EnterOrigdict(EnterPatch(np_dict, EnterSnapshot(np_dict), sid), sid)

\* the whole of __exit__ for a scope whose snapshot is original_numpy
ExitAll(np_dict, original_numpy) == ExitRestore(ExitClear(np_dict), original_numpy)

\* the namespace in which the call is made
Context(via) ==
    CASE via = "np_scope" -> EnterAll(ns, 1)
      [] via = "np_nested" -> EnterAll(EnterAll(ns, 1), 2)
      [] OTHER -> ns

\* the namespace after the crossnp-wrapped calls around the call have returned
AfterContext(via) ==
    CASE via = "np_scope" -> ExitAll(Context(via), EnterSnapshot(ns))
      [] via = "np_nested" ->
            ExitAll(ExitAll(Context(via), EnterSnapshot(EnterAll(ns, 1))), EnterSnapshot(ns))
      [] OTHER -> ns

Invoke ==
    /\ event.what # "call"
    /\ \E n \in CallNames : \E via \in {"np", "np_scope", "np_nested", "cnp"} : \E arg \in Args :
       \E r \in {CNP_getattr(n, ns, fns, -(nextW + 1))} :
       \E f \in {IF via = "cnp" THEN r.val ELSE Context(via)[n]} :
       \E c \in {Call(f, arg, Context(via), reg, own)} :
          /\ via = "cnp" => CacheRoom(n) /\ ~r.raised
          /\ fns' = IF via = "cnp" THEN r.fns ELSE fns
          /\ nextW' = IF via = "cnp" /\ r.fns # fns THEN nextW + 1 ELSE nextW
          /\ ns' = AfterContext(via)
          /\ reg' = c.D
          /\ event' = CallEvent(n, via, f, arg, c)
    /\ UNCHANGED <<frameVars, padVars, stack, result, nextId, muts, own, made>>

\* a handler is registered on the own registry of a cached wrapper
RegisterOwn ==
    /\ Cardinality(own) < MaxOwn
    /\ \E n \in Keys(fns) : \E cls \in {"Tensor", "list"} :
          /\ IsWrapper(fns[n])
          /\ <<fns[n], cls>> \notin own
          /\ own' = own \cup {<<fns[n], cls>>}
    /\ event' = [NoEvent EXCEPT !.what = "register"]
    /\ UNCHANGED <<frameVars, padVars, scopeVars, fns, reg, made, nextW>>

\* the caller is done with what the call returned
Consume ==
    /\ event.what = "call"
    /\ event' = NoEvent
    /\ UNCHANGED <<frameVars, padVars, scopeVars, fns, reg, own, made, nextW>>

NextCall ==
    \/ Invoke
    \/ RegisterOwn
    \/ Consume

SpecCall == InitCall /\ [][NextCall]_vars

(***************************************************************************)
(* SpecFrame: a program that hands values to CrossFrame and projects the   *)
(* dask frame it holds.  CrossFrame(x) dispatches on type(x) and calls the *)
(* factory found; the program keeps the frame it got.                      *)
(***************************************************************************)
\* CrossFrame(x) for a value x of class cls whose columns are data
CrossFrameCall(cls, data) ==
    \E r \in {dispatch(cf, cls)} :
       /\ cf' = r.D
       /\ loads' = loads + r.ran
       /\ first' = IF first = "" /\ cls \in Family THEN cls ELSE first
       /\ cur' = IF r.impl = "DaskDataFrame" THEN [held |-> TRUE, data |-> data] ELSE cur
       /\ fevent' = [NoFEvent EXCEPT !.what = "dispatch", !.cls = cls, !.impl = r.impl,
                                     !.ran = r.ran,
                                     !.raised = IF r.impl = NoHandler THEN "TypeError" ELSE "",
                                     !.frame = data]

FrameDispatch ==
    /\ \E cls \in Family \cup {"PandasFrame", "int"} : \E data \in Datas :
          CrossFrameCall(cls, data)
    /\ UNCHANGED <<scopeVars, callVars, padVars>>

\* cur.project(columns); lines 61-66, with the CrossFrame call of line 66
Project ==
    /\ cur.held
    /\ \E columns \in Requests :
       \E p \in {project(cur.data, columns)} :
          IF p.raised # ""
          THEN /\ fevent' = [NoFEvent EXCEPT !.what = "project", !.raised = p.raised,
                                             !.frame = cur.data, !.request = columns]
               /\ UNCHANGED <<cf, loads, cur, first>>
          ELSE \E r \in {dispatch(cf, "DataFrame")} :
                  /\ cf' = r.D
                  /\ loads' = loads + r.ran
                  /\ first' = first
                  /\ cur' = [held |-> TRUE, data |-> p.data]
                  /\ fevent' = [NoFEvent EXCEPT !.what = "project", !.cls = "DataFrame",
                                                !.impl = r.impl, !.ran = r.ran,
                                                !.frame = cur.data, !.request = columns,
                                                !.columns = Columns(p.data)]
    /\ UNCHANGED <<scopeVars, callVars, padVars>>

\* the program drops the frame it holds
Drop ==
    /\ cur.held
    /\ cur' = NoFrame
    /\ fevent' = [NoFEvent EXCEPT !.what = "drop"]
    /\ UNCHANGED <<scopeVars, callVars, padVars, cf, loads, first>>

InitFrame ==
    /\ ns = OrigNs
    /\ stack = [t \in Threads |-> <<>>]
    /\ result = [t \in Threads |-> NoResult]
    /\ nextId = 0
    /\ muts = 0
    /\ InitCallVars
    /\ InitFrameVars
    /\ InitPadVars

NextFrame ==
    \/ FrameDispatch
    \/ Project
    \/ Drop

SpecFrame == InitFrame /\ [][NextFrame]_vars

(***************************************************************************)
(* SpecPad: a program that builds a list of tensors of one rank and calls  *)
(* pad_tensors on it.                                                      *)
(***************************************************************************)
\* tensor_list.append(t)
AppendTensor ==
    /\ Len(tensors) < MaxList
    /\ \E rank \in Ranks : \E shape \in Shapes(rank) :
          /\ tensors # <<>> => rank = Len(tensors[1].shape)
          /\ tensors' = Append(tensors, InputTensor(Len(tensors) + 1, shape))
    /\ padded' = NotPadded
    /\ UNCHANGED <<scopeVars, callVars, frameVars>>

\* padded = pad_tensors(tensor_list, pad_token_id)
PadTensors ==
    /\ tensors # <<>>
    /\ \E pad_token_id \in PadValues :
          padded' = [done |-> TRUE, value |-> pad_token_id,
                     out |-> pad_tensors(tensors, pad_token_id)]
    /\ UNCHANGED <<scopeVars, callVars, frameVars, tensors>>

InitPad ==
    /\ ns = OrigNs
    /\ stack = [t \in Threads |-> <<>>]
    /\ result = [t \in Threads |-> NoResult]
    /\ nextId = 0
    /\ muts = 0
    /\ InitCallVars
    /\ InitFrameVars
    /\ InitPadVars

NextPad ==
    \/ AppendTensor
    \/ PadTensors

SpecPad == InitPad /\ [][NextPad]_vars

(***************************************************************************)
(* Properties of the monkey-patch scope.                                   *)
(***************************************************************************)
\* thread t's innermost scope finishes __exit__ in this step
Exits(t) == Len(stack[t]) > 0 /\ Len(stack'[t]) < Len(stack[t])

\* thread t's scope f is its outermost one
Outermost(t) == Len(stack[t]) = 1

AllIdle == \A t \in Threads : stack[t] = <<>>

\* C1: round trip of a single scope that no other scope overlaps: whatever
\* its body did to the namespace (adding, removing, rebinding names, ending
\* by a return or by an error), the bindings right after __exit__ are the
\* bindings right before __enter__.
C1_RoundTrip ==
    [][\A t \in Threads :
          (Exits(t) /\ Outermost(t) /\ ~Top(t).xthread /\ ~Top(t).nested)
              => ns' = Top(t).pre]_vars

\* a single scope whose body changed the namespace and raised has exited
C1_Witness ==
    /\ AllIdle
    /\ nextId = 1
    /\ muts >= 1
    /\ \E t \in Threads : result[t] = [kind |-> "exc", nested |-> FALSE, xthread |-> FALSE]
    /\ ns = OrigNs

\* thread t's scope f took its snapshot while the first scope, of another
\* thread, was active with its patch applied
SnapshotDuringFirst(f) == f.sid = 2 /\ f.during

\* C2: two overlapping scopes of two threads.  The second scope, entered
\* while the first one is active, snapshots the first one's wrappers; and
\* when its __exit__ comes after the first scope's, both scopes have exited
\* and the namespace holds the first scope's wrappers, not the originals.
C2_OverlapCorrupts ==
    /\ [](\A t \in Threads : \A i \in 1..Len(stack[t]) :
            LET f == stack[t][i]
            IN  SnapshotDuringFirst(f)
                    => /\ f.snap # OrigNs
                       /\ f.snap["mean"] = with_dispatch(OrigNs["mean"], 1))
    /\ [][\A t \in Threads :
            (Exits(t) /\ SnapshotDuringFirst(Top(t))
                      /\ \A u \in Threads \ {t} : stack[u] = <<>>)
                => /\ AllIdle'
                   /\ ns' # OrigNs
                   /\ ns'["mean"] = with_dispatch(OrigNs["mean"], 1)]_vars

\* both threads have finished one wrapped call each, the two scopes
\* overlapped, and the namespace is left holding dispatch wrappers
C2_Witness ==
    /\ AllIdle
    /\ nextId = 2
    /\ \A t \in Threads : result[t].kind # "none" /\ result[t].xthread
    /\ IsWrapper(ns["mean"])
    /\ IsWrapper(ns["sum"])
    /\ ns # OrigNs

\* C3 as claimed: after a wrapped call that made a reentrant wrapped call
\* on its own thread has returned, the namespace is not back at the
\* bindings it had before the outer __enter__.
C3_ReentrantCorrupts ==
    [][\A t \in Threads :
          (Exits(t) /\ Outermost(t) /\ Top(t).nested /\ ~Top(t).xthread)
              => ns' # Top(t).pre]_vars

\* C3 amended: scopes nested on one thread exit in the reverse order of
\* their enters, each restoring its own snapshot, so with no scope of
\* another thread overlapping, the inner __exit__ brings back the outer
\* scope's patched bindings and the outer __exit__ the bindings from before
\* the outer __enter__.
C3_ReentrantRestores ==
    [][\A t \in Threads :
          (Exits(t) /\ ~stack[t][1].xthread /\ (stack[t][1].nested \/ ~Outermost(t)))
              => ns' = Top(t).pre]_vars

\* a wrapped call that made a reentrant wrapped call has returned
C3_Witness ==
    /\ AllIdle
    /\ nextId = 2
    /\ \E t \in Threads : result[t].nested /\ ~result[t].xthread /\ result[t].kind = "ret"
    /\ ns = OrigNs

\* thread t's innermost scope finishes __enter__ in this step
EnterCompletes(t) ==
    /\ Len(stack[t]) > 0
    /\ Top(t).pc = "orig"
    /\ Len(stack'[t]) = Len(stack[t])
    /\ stack'[t][Len(stack[t])].pc = "body"

\* __enter__ replaces the binding of n in the namespace pre
Eligible(n, pre) ==
    /\ IsFunctionType(pre[n])
    /\ n \notin MonkeyPatchNumpy_no_dispatch
    /\ ~startswith_underscore(n)

\* C14 as claimed: right after an __enter__ that no other thread's scope
\* overlapped, a name is bound to a dispatch wrapper of its pre-enter
\* binding exactly if that binding was a function, the name is not excluded
\* and does not start with an underscore; every other binding is as it was,
\* and the same names are bound as before.
C14_EnterPatchesOnly ==
    [][\A t \in Threads :
          (EnterCompletes(t) /\ ~Top(t).xthread)
              => /\ \A n \in AllNames :
                       ns'[n] = IF Eligible(n, Top(t).pre)
                                THEN with_dispatch(Top(t).pre[n], Top(t).sid)
                                ELSE Top(t).pre[n]
                 /\ Keys(ns') = Keys(Top(t).pre)]_vars

\* C14 amended: the same, except for the name __origdict__, which __enter__
\* binds to its snapshot whether or not it was bound before.
C14_EnterPatchesAndAddsOrigdict ==
    [][\A t \in Threads :
          (EnterCompletes(t) /\ ~Top(t).xthread)
              => /\ \A n \in AllNames \ {"__origdict__"} :
                       ns'[n] = IF Eligible(n, Top(t).pre)
                                THEN with_dispatch(Top(t).pre[n], Top(t).sid)
                                ELSE Top(t).pre[n]
                 /\ ns'["__origdict__"] = SnapshotRef(Top(t).sid)
                 /\ Keys(ns') = Keys(Top(t).pre) \cup {"__origdict__"}]_vars

\* a scope was entered inside another whose body had bound a user function
\* to a new name: that name and the outer scope's wrappers are wrapped, the
\* excluded names are not, and __origdict__ is the inner scope's snapshot
C14_Witness ==
    \E t \in Threads :
        /\ Len(stack[t]) = 2
        /\ Top(t).pc = "body"
        /\ ~Top(t).xthread
        /\ Top(t).pre["extra"] = Obj("userfn", "extra")
        /\ ns["extra"] = with_dispatch(Obj("userfn", "extra"), Top(t).sid)
        /\ ns["sum"] = with_dispatch(with_dispatch(OrigNs["sum"], stack[t][1].sid), Top(t).sid)
        /\ ns["isscalar"] = OrigNs["isscalar"]
        /\ ns["__origdict__"] = SnapshotRef(Top(t).sid)

\* the function under the dispatch wrappers of v (v itself when not wrapped)
Unwrapped(v) == [v EXCEPT !.wraps = <<>>]

\* thread r has entered no scope so far: it only reads the namespace
OnlyReads(r) == stack[r] = <<>> /\ result[r].kind = "none"

\* some thread's __exit__ is between its clear and its restore
InsideExit == \E t \in Threads : stack[t] # <<>> /\ Top(t).pc = "restore"

\* C16 as claimed: at every step of the lifetime of a scope, between the
\* steps of __exit__ too, every name that was bound before its __enter__
\* (and that no wrapped function's body rebinds or deletes) is bound.
C16_NeverMissing ==
    \A t \in Threads : \A i \in 1..Len(stack[t]) :
        \A n \in Keys(stack[t][i].pre) \ MutNames : IsBound(ns[n])

\* C16 amended: with the scopes those of one thread and the other thread
\* only reading, the reader finds no name bound at all between the clear
\* and the restore of an __exit__; at every other step it finds every name
\* of the library that no body rebinds or deletes bound, to the original
\* value or to a dispatch wrapper of it.
C16_MissingOnlyInsideExit ==
    \A r \in Threads :
        OnlyReads(r)
            => IF InsideExit
               THEN Keys(ns) = {}
               ELSE \A n \in LibNames \ MutNames :
                       IsBound(ns[n]) /\ Unwrapped(ns[n]) = OrigNs[n]

\* thread 1's __exit__ has cleared the namespace and not yet restored it,
\* and thread 2, which entered no scope, finds mean unbound
C16_Witness ==
    /\ OnlyReads(2)
    /\ stack[1] # <<>>
    /\ Top(1).pc = "restore"
    /\ "mean" \in Keys(Top(1).pre)
    /\ ~IsBound(ns["mean"])
    /\ Keys(ns) = {}

(***************************************************************************)
(* Properties of crossnp-wrapped calls and of the cnp cache (SpecCnp).     *)
(***************************************************************************)
\* the name is one that __enter__ replaces by a dispatch wrapper
Patchable(n) ==
    /\ IsFunctionType(OrigNs[n])
    /\ n \notin MonkeyPatchNumpy_no_dispatch
    /\ ~startswith_underscore(n)

\* C4: the wrapper crossnp returns for a user function keeps the patch
\* active for one outer call only.  Making the wrapper leaves the namespace
\* alone; with no wrapped call running the namespace is the original one;
\* while the wrapped function runs every patchable name is bound to a
\* dispatch wrapper; and when the outermost call hands control back, by a
\* value or by an error, the namespace is back at its bindings from before
\* the call, the value being the one the wrapped function returned.
C4_PatchOnlyDuringCall ==
    /\ [](stack[Main] = <<>> => ns = OrigNs)
    /\ [](stack[Main] # <<>> => \A n \in LibNames : Patchable(n) => IsWrapper(ns[n]))
    /\ [][event'.what = "wrap" => ns' = ns /\ ns' = OrigNs]_vars
    /\ [][(Exits(Main) /\ Outermost(Main))
             => /\ ns' = Top(Main).pre
                /\ ns' = OrigNs
                /\ event'.what = "return"
                /\ event'.raised = "" => event'.val = FuncReturn(event)
                /\ Top(Main).out = "exc" => event'.raised # ""]_vars

\* f(x) = np.sum(x) + 1 wrapped by crossnp has returned 7 to the top level
\* and the namespace is the original one again
C4_Witness ==
    /\ stack[Main] = <<>>
    /\ made
    /\ event.what = "return"
    /\ event.raised = ""
    /\ event.val = 7
    /\ ns = OrigNs

\* C5: identity stability of the cnp cache.  An entry of the cache, once
\* made, is never replaced or removed; every request for a name, through
\* cnp or through crossnp of a reference-library function, returns the
\* entry of that name (for a name cnp does not dispatch, the reference
\* library's own object).
C5_CacheIdentityStable ==
    /\ [][\A n \in AllNames : IsBound(fns[n]) => fns'[n] = fns[n]]_vars
    /\ [](event.what \in {"lookup", "crossnp"} /\ event.raised = ""
             => event.obj = IF event.n \in CNP_no_dispatch
                            THEN OrigNs[event.n]
                            ELSE fns[event.n])

\* inside a wrapped call, crossnp(np.sum) returns the callable that cnp made
\* for sum before the call started, another name having been cached since
C5_Witness ==
    /\ stack[Main] # <<>>
    /\ fns["mean"] = with_dispatch(OrigNs["mean"], -2)
    /\ IsWrapper(ns["sum"])
    /\ event.what = "crossnp"
    /\ event.n = "sum"
    /\ event.obj = with_dispatch(OrigNs["sum"], -1)
    /\ fns["sum"] = event.obj

\* C11: a name the reference library does not define.  Requesting it from
\* cnp raises AttributeError and leaves the cache as it was: no entry is
\* made for the name and no entry is changed.
C11_UnknownNameRaises ==
    /\ [][(event'.what = "lookup" /\ ~IsBound(ns[event'.n]))
             => /\ event'.raised = "AttributeError"
                /\ event'.obj = Unbound
                /\ fns' = fns
                /\ ~IsBound(fns'[event'.n])]_vars
    /\ [](\A n \in AllNames : IsBound(fns[n]) => n \in LibNames)

\* with sum cached, cnp.extra has raised AttributeError
C11_Witness ==
    /\ event.what = "lookup"
    /\ event.n = "extra"
    /\ ~IsBound(ns["extra"])
    /\ event.raised = "AttributeError"
    /\ fns["sum"] = with_dispatch(OrigNs["sum"], -1)
    /\ ~IsBound(fns["extra"])

\* C15 as claimed: every entry of the cnp cache is a dispatch wrapper whose
\* dispatch target is the reference library's original function, never
\* another dispatch wrapper, also when the entry was made inside a scope.
C15_CacheWrapsOriginal ==
    \A n \in AllNames :
        IsBound(fns[n])
            => /\ DispatchTarget(fns[n]) = OrigNs[n]
               /\ ~IsWrapper(DispatchTarget(fns[n]))

(***************************************************************************)
(* Properties of calls of dispatch-wrapped operations (SpecCall).          *)
(***************************************************************************)
\* the last step called a dispatch wrapper
WrapperCalled == event.what = "call" /\ IsWrapper(event.obj)

\* C6: pure delegation.  A dispatch-wrapped operation called on a value
\* whose type has no handler in the wrapper's own registry, none in
\* np_backend_dispatch and no lazy loader calls the reference
\* implementation once, on that value, and returns its result or raises
\* its error; no backend adapter is called.
C6_PureDelegation ==
    (WrapperCalled /\ event.unhandled)
        => LET ref == CallReference(OrigNs[event.n], event.arg, reg)
           IN /\ event.target = "reference"
              /\ event.refcalls = 1
              /\ event.adapters = 0
              /\ event.refarg = event.arg
              /\ event.raised = ref.raised
              /\ event.val = ref.val
              /\ event.ran = 0

\* cnp.sum on a Tensor, no backend registered for it, gave the reference sum
C6_Witness ==
    /\ WrapperCalled
    /\ event.unhandled
    /\ event.via = "cnp"
    /\ event.n = "sum"
    /\ event.arg.ty = "Tensor"
    /\ event.val = 6
    /\ event.refcalls = 1

\* C7 as claimed: a call of an operation named in the exclusion set never
\* reaches a backend adapter, through cnp or through the patched namespace.
C7_ExcludedNeverAdapted ==
    (event.what = "call" /\ event.n \in MonkeyPatchNumpy_no_dispatch)
        => event.adapters = 0

\* the last call reached np_backend_dispatch: it was a call of a dispatch
\* wrapper of a function other than dtype, on a value that is neither an
\* ndarray nor a list and that no wrapper's own registry handles
ReachedBackendDispatch ==
    /\ WrapperCalled
    /\ event.n # "dtype"
    /\ ~IsPlain(event.arg, ns)
    /\ \A k \in 1..Len(event.obj.wraps) :
          ~supports([event.obj EXCEPT !.wraps = SubSeq(@, 1, k)], event.arg, own)

\* C9: an operation the backend's library lacks.  When the call reaches
\* np_backend_dispatch, the argument's type has an NPBackend registered and
\* that backend's library has no attribute of the function's name, the call
\* raises NotImplementedError; the reference implementation is not called
\* and the error is not an AttributeError.
C9_UnsupportedPropagates ==
    LET h == dispatch(reg, event.arg.ty).impl
    IN (ReachedBackendDispatch /\ h # NoHandler /\ event.n \notin BackendAttrs(h))
          => /\ event.raised = "NotImplementedError"
             /\ event.refcalls = 0
             /\ event.target = "none"
             /\ event.fn = event.n

\* cnp.mean on a Tensor whose backend, registered lazily, lacks mean
C9_Witness ==
    /\ ReachedBackendDispatch
    /\ event.via = "cnp"
    /\ event.n = "mean"
    /\ event.arg.ty = "Tensor"
    /\ event.ran = 1
    /\ event.raised = "NotImplementedError"
    /\ event.refcalls = 0

\* the last step called a wrapper of a function that is not itself a wrapper
PlainWrapperCalled == WrapperCalled /\ Len(event.obj.wraps) = 1

\* C13: the order of the decisions of a dispatch-wrapped operation.  A
\* wrapper of dtype calls the reference implementation; otherwise an
\* ndarray (subclasses included) or a list goes to the reference
\* implementation whatever is registered for its type; otherwise a type
\* the wrapper's own registry handles goes to that override and not to the
\* generic dispatcher; every other call goes to the generic dispatcher,
\* once.  One of the four is taken.
C13_DecisionOrder ==
    PlainWrapperCalled
        => IF event.n = "dtype" \/ IsPlain(event.arg, ns)
           THEN /\ event.target = "reference"
                /\ event.refcalls = 1
                /\ event.refarg = event.arg
                /\ event.generic = 0
                /\ event.adapters = 0
                /\ event.ran = 0
           ELSE IF supports(event.obj, event.arg, own)
           THEN /\ event.target = "override"
                /\ event.refcalls = 0
                /\ event.generic = 0
                /\ event.adapters = 0
                /\ event.ran = 0
           ELSE /\ event.generic = 1
                /\ event.target # "override"
                /\ event.refcalls + event.adapters = 1

\* a list was summed through cnp.sum while handlers were registered for
\* list both in np_backend_dispatch and in cnp.sum's own registry: the
\* reference implementation ran
C13_Witness ==
    /\ PlainWrapperCalled
    /\ event.via = "cnp"
    /\ event.n = "sum"
    /\ event.arg.ty = "list"
    /\ reg.lookup["list"] = "TensorBackend"
    /\ <<event.obj, "list">> \in own
    /\ event.target = "reference"
    /\ event.val = 6

(***************************************************************************)
(* Properties of the dask frame backend (SpecFrame).                       *)
(***************************************************************************)
\* C8: the lazy loader registered under "dask" runs once.  It has run at
\* most once, and has run exactly when its lazy entry is gone; the first
\* dispatch on a value of a type of the family runs it, no later dispatch
\* does, and nothing but a dispatch on such a value runs it.
C8_LoaderRunsOnce ==
    /\ [](loads <= 1)
    /\ [](loads = 1 <=> LazyKey \notin DOMAIN cf.lazy)
    /\ [](loads = 1 <=> first # "")
    /\ [][(fevent'.what = "dispatch" /\ fevent'.cls \in Family /\ first = "")
             => loads = 0 /\ loads' = 1 /\ fevent'.ran = 1]_vars
    /\ [][first # "" => loads' = loads /\ fevent'.ran = 0]_vars
    /\ [][loads' # loads => fevent'.what = "dispatch" /\ fevent'.cls \in Family]_vars

\* a Series was dispatched on first, then a DataFrame: the second dispatch
\* found the handler the loader registered and did not run the loader
C8_Witness ==
    /\ first = "Series"
    /\ fevent.what = "dispatch"
    /\ fevent.cls = "DataFrame"
    /\ fevent.impl = "DaskDataFrame"
    /\ fevent.ran = 0
    /\ loads = 1

\* C10: project on a dask frame.  A request that is not a subset of the
\* frame's columns raises ValueError; any other request returns a frame
\* whose columns are the requested ones, a single str or int counting as
\* the list of that one label.
C10_ProjectChecksSubset ==
    fevent.what = "project"
        => LET requested == IF fevent.request.scalar
                            THEN <<fevent.request.val[1]>>
                            ELSE fevent.request.val
           IN IF \E i \in DOMAIN requested : requested[i] \notin SetOf(fevent.frame)
              THEN fevent.raised = "ValueError" /\ fevent.columns = <<>>
              ELSE /\ fevent.raised = ""
                   /\ fevent.impl = "DaskDataFrame"
                   /\ fevent.columns = requested
                   /\ cur = [held |-> TRUE, data |-> requested]

\* ["a", "c"] requested of a frame with columns ["a", "b"]: ValueError
C10_Witness ==
    /\ fevent.what = "project"
    /\ fevent.frame = <<"a", "b">>
    /\ fevent.request = [scalar |-> FALSE, val |-> <<"a", "c">>]
    /\ fevent.raised = "ValueError"
    /\ cur.data = <<"a", "b">>

(***************************************************************************)
(* Properties of pad_tensors (SpecPad).                                    *)
(***************************************************************************)
\* the output tensor has the input tensor's cells where the input has
\* cells, and the padding value everywhere else
PaddedAtEnd(in, out, value) ==
    \A idx \in DOMAIN out.cell :
        out.cell[idx] = IF idx \in DOMAIN in.cell THEN in.cell[idx] ELSE value

\* C12 as claimed: pad_tensors returns as many tensors as it got, all of
\* one shape, every dimension being the largest size of that dimension
\* among the inputs, the inputs' cells unchanged and the padding at the end
\* of each dimension.
C12_PaddedToCommonShape ==
    padded.done
        => /\ Len(padded.out) = Len(tensors)
           /\ \A i \in 1..Len(tensors) :
                 /\ padded.out[i].shape = max_sizes_all_dims(tensors)
                 /\ PaddedAtEnd(tensors[i], padded.out[i], padded.value)

====
